---- MODULE Spec2Model ----
(***************************************************************************)
(* UnsupBipartiteInstReader (unsup_bipartite_graphsage_inst_reader.cc):    *)
(* the batch constructor of the bipartite unsupervised GraphSAGE model.    *)
(* One GetBatch call is modelled as the sequence of its statements:        *)
(*   idle -> (read, collect, sample negatives, partition) -> fill_user     *)
(*        -> fill_item -> edge | index (one resolution per step) -> idle   *)
(* A failed DXCHECK ends the process (pc = "aborted").                     *)
(***************************************************************************)
EXTENDS Integers, Sequences, FiniteSets

VARIABLES
    is_train_,        \* config "is_train"
    user_ns_id_,      \* config "user_ns_id"
    item_ns_id_,      \* config "item_ns_id"
    open,             \* line_parser_ is open
    pc,               \* position inside GetBatch
    src_nodes_, dst_nodes_, neg_nodes_list_,
    user_nodes, item_nodes,            \* locals of GetTrainBatch/GetPredictBatch
    user_indexings_, item_indexings_,  \* std::vector<Indexing>, one table per level
    inst,             \* the caller's Instance
    ret,              \* what the last GetBatch call returned: "none", "true", "false"
    k,                \* number of nodes resolved so far in this call
    filled,           \* the encoders FillInstance has completed for in this call
    nread             \* number of records NextBatch handed to this call

vars == <<is_train_, user_ns_id_, item_ns_id_, open, pc, src_nodes_, dst_nodes_,
          neg_nodes_list_, user_nodes, item_nodes, user_indexings_,
          item_indexings_, inst, ret, k, filled, nread>>

config == <<is_train_, user_ns_id_, item_ns_id_>>

-----------------------------------------------------------------------------
(* Bounds and input domains *)

\* batch_: the number of records NextBatch reads at most
MaxBatch == 1

\* num_neg_: negatives per destination node (config "num_neg", > 0)
NumNeg == 1

\* A node identifier is <<type tag, type-local id>>
NodePool == {<<0, 1>>, <<0, 2>>, <<1, 1>>, <<2, 1>>}

\* The (user_ns_id, item_ns_id) pairs InitConfigKV is given: the defaults and
\* the two tags exchanged
TagPairs == {<<0, 1>>, <<1, 0>>}

\* The type tags of the node pool
Tags == {0, 1, 2}

\* The edge records the file can hold: (src_node, dst_node), either endpoint
\* of either type, and endpoints of a type that is not registered
EdgePool == {<<<<0, 1>>, <<1, 1>>>>, <<<<0, 2>>, <<1, 1>>>>, <<<<1, 1>>, <<0, 1>>>>,
             <<<<0, 1>>, <<0, 2>>>>, <<<<2, 1>>, <<1, 1>>>>, <<<<0, 1>>, <<2, 1>>>>}

\* num_neighbors_: the per-hop fanouts (empty unless configured)
num_neighbors_ == << >>

-----------------------------------------------------------------------------
(* Helpers on sequences *)

Range(s) == {s[i] : i \in 1..Len(s)}

SeqsUpTo(S, lo, hi) == UNION {[1..n -> S] : n \in lo..hi}

RECURSIVE Flatten(_)
Flatten(ss) == IF ss = << >> THEN << >> ELSE Head(ss) \o Flatten(Tail(ss))

-----------------------------------------------------------------------------
(* Collaborators *)

\* io_util::GetNodeType: the type tag of a node identifier
GetNodeType(node) == node[1]

\* Indexing::Get: the dense index of a node, negative when absent
Get(table, node) ==
    IF \E i \in 1..Len(table) : table[i] = node
    THEN (CHOOSE i \in 1..Len(table) : table[i] = node) - 1
    ELSE -1

\* Indexing::Size
Size(table) == Len(table)

\* Collect<EdgeValue, int_t>(values, &EdgeValue::src_node) and the like
Collect(values, field) == [i \in 1..Len(values) |-> values[i][field]]

\* GraphClient::SharedSampleNegative(count, nodes, pool): one list of count
\* negatives per anchor, each drawn from the pool
SharedSampleNegative(count, nodes, pool) ==
    [1..Len(nodes) -> [1..count -> Range(pool)]]

\* NeighborAggregationFlow::SampleSubGraph: the level node sets, level 0 being
\* the seed set and each further hop adding sampled neighbours
RECURSIVE Expand(_, _)
Expand(level, fanouts) ==
    IF fanouts = << >> THEN {<<level>>}
    ELSE LET cands == IF level = {} THEN {{}}
                      ELSE {e \in SUBSET NodePool : Cardinality(e) <= Head(fanouts)}
         IN UNION {{<<level>> \o rest : rest \in Expand(level \cup e, Tail(fanouts))}
                   : e \in cands}

SampleSubGraph(nodes, fanouts) == Expand(Range(nodes), fanouts)

\* Every order in which a node set can be iterated
Orders(S) == {t \in [1..Cardinality(S) -> S] : \A i, j \in 1..Cardinality(S) :
                  t[i] = t[j] => i = j}

\* inst_util::CreateIndexings: one fresh table per level, replacing the vector
CreateIndexings(level_nodes) ==
    {ix \in [1..Len(level_nodes) -> UNION {Orders(level_nodes[l]) : l \in 1..Len(level_nodes)}] :
        \A l \in 1..Len(level_nodes) : ix[l] \in Orders(level_nodes[l])}

-----------------------------------------------------------------------------
(* ParseUserAndItemFrom *)

\* ParseUserAndItemFrom with the second test not chained by else
RECURSIVE ParseUserAndItemFrom_NoElse(_, _, _, _, _)
ParseUserAndItemFrom_NoElse(nodes, user_group, item_group, un, itn) ==
    IF nodes = << >> THEN <<un, itn>>
    ELSE LET node == Head(nodes)
             group == GetNodeType(node)
             un2 == IF group = user_group THEN Append(un, node) ELSE un
             itn2 == IF group = item_group THEN Append(itn, node) ELSE itn
         IN ParseUserAndItemFrom_NoElse(Tail(nodes), user_group, item_group, un2, itn2)

RECURSIVE ParseUserAndItemFrom(_, _, _, _, _)
ParseUserAndItemFrom(nodes, user_group, item_group, un, itn) ==
    IF nodes = << >> THEN <<un, itn>>
    ELSE LET node == Head(nodes)
             group == GetNodeType(node)
         IN IF group = user_group
               THEN ParseUserAndItemFrom(Tail(nodes), user_group, item_group,
                                         Append(un, node), itn)
            ELSE IF group = item_group
               THEN ParseUserAndItemFrom(Tail(nodes), user_group, item_group,
                                         un, Append(itn, node))
            ELSE ParseUserAndItemFrom(Tail(nodes), user_group, item_group, un, itn)

\* The loop over neg_nodes_list_ of GetTrainBatch
RECURSIVE ParseNegLists(_, _)
ParseNegLists(lists, acc) ==
    IF lists = << >> THEN acc
    ELSE ParseNegLists(Tail(lists),
             ParseUserAndItemFrom(Head(lists), user_ns_id_, item_ns_id_, acc[1], acc[2]))

\* GetTrainBatch partitioning the source nodes only
ParseTrain_SrcOnly(src, dst, negs) ==
    ParseUserAndItemFrom(src, user_ns_id_, item_ns_id_, << >>, << >>)

\* The three partition steps of GetTrainBatch: src, dst, every negative list
ParseTrain(src, dst, negs) ==
    LET a == ParseUserAndItemFrom(src, user_ns_id_, item_ns_id_, << >>, << >>)
        b == ParseUserAndItemFrom(dst, user_ns_id_, item_ns_id_, a[1], a[2])
    IN ParseNegLists(negs, b)

-----------------------------------------------------------------------------
(* Unified index resolution *)

\* index_func returning the item index without the user-table offset
index_func_NoOffset(node) ==
    IF GetNodeType(node) = user_ns_id_
    THEN LET index == Get(user_indexings_[1], node)
         IN [check |-> index >= 0, value |-> index]
    ELSE LET index == Get(item_indexings_[1], node)
         IN [check |-> index >= 0, value |-> index]

\* index_func without its DXCHECKs
index_func_NoCheck(node) ==
    IF GetNodeType(node) = user_ns_id_
    THEN LET index == Get(user_indexings_[1], node)
         IN [check |-> TRUE, value |-> index]
    ELSE LET index == Get(item_indexings_[1], node)
         IN [check |-> TRUE, value |-> index + Size(user_indexings_[1])]

\* index_func offsetting by the size of the item table
index_func_ItemSizeOffset(node) ==
    IF GetNodeType(node) = user_ns_id_
    THEN LET index == Get(user_indexings_[1], node)
         IN [check |-> index >= 0, value |-> index]
    ELSE LET index == Get(item_indexings_[1], node)
         IN [check |-> index >= 0, value |-> index + Size(item_indexings_[1])]

\* The index function of GetTrainBatch: [check |-> the DXCHECK condition,
\* value |-> the value returned when the check passes]
index_func(node) ==
    IF GetNodeType(node) = user_ns_id_
    THEN LET index == Get(user_indexings_[1], node)
         IN [check |-> index >= 0, value |-> index]
    ELSE LET index == Get(item_indexings_[1], node)
         IN [check |-> index >= 0, value |-> index + Size(user_indexings_[1])]

\* UnsupBipartiteInstReader::Index, used by FillIndex
Index(node) ==
    IF GetNodeType(node) = user_ns_id_
    THEN LET index == Get(user_indexings_[1], node)
         IN [check |-> index >= 0, value |-> index]
    ELSE LET index == Get(item_indexings_[1], node)
         IN [check |-> index >= 0, value |-> index + Size(user_indexings_[1])]

\* The nodes FillEdgeAndLabel resolves: the sources with src_index_fn (written
\* to X_SRC_ID), then the destinations and the negatives with dst_index_fn
\* (written to X_DST_ID)
ResolveOrder == src_nodes_ \o dst_nodes_ \o Flatten(neg_nodes_list_)

-----------------------------------------------------------------------------
(* Init: the reader after construction, InitConfig and Open *)

EmptyInstance == [batch |-> 0, x_src_id |-> << >>, x_dst_id |-> << >>,
                  predict_nodes |-> << >>]

Init ==
    /\ is_train_ \in BOOLEAN
    /\ \E tags \in TagPairs : user_ns_id_ = tags[1] /\ item_ns_id_ = tags[2]
    /\ open = TRUE
    /\ pc = "idle"
    /\ src_nodes_ = << >> /\ dst_nodes_ = << >> /\ neg_nodes_list_ = << >>
    /\ user_nodes = << >> /\ item_nodes = << >>
    /\ user_indexings_ = << >> /\ item_indexings_ = << >>
    /\ inst = EmptyInstance
    /\ ret = "none"
    /\ k = 0 /\ filled = {} /\ nread = 0

-----------------------------------------------------------------------------
(* FillInstance *)

\* The tables FillInstance leaves in *indexings: the sampled level sets, indexed
FillInstance(nodes) ==
    UNION {CreateIndexings(level_nodes) :
              level_nodes \in SampleSubGraph(nodes, num_neighbors_)}

-----------------------------------------------------------------------------
(* GetTrainBatch *)

\* NextBatch yields nothing: Close, clear_batch, return false
GetTrainBatch_EndOfStream ==
    /\ pc = "idle" /\ is_train_
    /\ open' = FALSE
    /\ inst' = [inst EXCEPT !.batch = 0]
    /\ ret' = "false"
    /\ k' = 0 /\ filled' = {} /\ nread' = 0
    /\ UNCHANGED <<config, pc, src_nodes_, dst_nodes_, neg_nodes_list_,
                   user_nodes, item_nodes, user_indexings_, item_indexings_>>

\* NextBatch, Collect, SharedSampleNegative and the three partition steps
GetTrainBatch_Read ==
    /\ pc = "idle" /\ is_train_ /\ open
    /\ \E values \in SeqsUpTo(EdgePool, 1, MaxBatch) :
         LET src == Collect(values, 1)
             dst == Collect(values, 2)
         IN \E negs \in SharedSampleNegative(NumNeg, dst, dst) :
              LET parsed == ParseTrain(src, dst, negs)
              IN /\ src_nodes_' = src
                 /\ dst_nodes_' = dst
                 /\ neg_nodes_list_' = negs
                 /\ user_nodes' = parsed[1]
                 /\ item_nodes' = parsed[2]
                 /\ nread' = Len(values)
    /\ pc' = "fill_user"
    /\ ret' = "none"
    /\ k' = 0 /\ filled' = {}
    /\ UNCHANGED <<config, open, user_indexings_, item_indexings_, inst>>

\* GetBatch going from the user FillInstance straight to the fill of the indices
GetBatch_FillUser_SkipItem ==
    /\ pc = "fill_user"
    /\ \E ix \in FillInstance(user_nodes) : user_indexings_' = ix
    /\ filled' = filled \cup {"user"}
    /\ pc' = IF is_train_ THEN "edge" ELSE "index"
    /\ UNCHANGED <<config, open, src_nodes_, dst_nodes_, neg_nodes_list_,
                   user_nodes, item_nodes, item_indexings_, inst, ret, k, nread>>

\* FillInstance(inst, USER_ENCODER_NAME, user_nodes, ..., &user_indexings_)
GetBatch_FillUser ==
    /\ pc = "fill_user"
    /\ \E ix \in FillInstance(user_nodes) : user_indexings_' = ix
    /\ filled' = filled \cup {"user"}
    /\ pc' = "fill_item"
    /\ UNCHANGED <<config, open, src_nodes_, dst_nodes_, neg_nodes_list_,
                   user_nodes, item_nodes, item_indexings_, inst, ret, k, nread>>

\* The item FillInstance handed &user_indexings_
GetBatch_FillItem_WrongSlot ==
    /\ pc = "fill_item"
    /\ \E ix \in FillInstance(item_nodes) : user_indexings_' = ix
    /\ filled' = filled \cup {"item"}
    /\ pc' = IF is_train_ THEN "edge" ELSE "index"
    /\ UNCHANGED <<config, open, src_nodes_, dst_nodes_, neg_nodes_list_,
                   user_nodes, item_nodes, item_indexings_, inst, ret, k, nread>>

\* FillInstance(inst, ITEM_ENCODER_NAME, item_nodes, ..., &item_indexings_)
GetBatch_FillItem ==
    /\ pc = "fill_item"
    /\ \E ix \in FillInstance(item_nodes) : item_indexings_' = ix
    /\ filled' = filled \cup {"item"}
    /\ pc' = IF is_train_ THEN "edge" ELSE "index"
    /\ UNCHANGED <<config, open, src_nodes_, dst_nodes_, neg_nodes_list_,
                   user_nodes, item_nodes, user_indexings_, inst, ret, k, nread>>

\* FillEdgeAndLabel resolving its next node through index_func
FillEdgeAndLabel_Step ==
    /\ pc = "edge" /\ k < Len(ResolveOrder)
    /\ LET node == ResolveOrder[k + 1]
           r == index_func(node)
           xs == IF k = 0 THEN << >> ELSE inst.x_src_id
           xd == IF k = 0 THEN << >> ELSE inst.x_dst_id
       IN IF ~r.check
          THEN /\ pc' = "aborted"
               /\ inst' = [inst EXCEPT !.x_src_id = xs, !.x_dst_id = xd]
               /\ UNCHANGED k
          ELSE /\ pc' = "edge"
               /\ k' = k + 1
               /\ inst' = IF k < Len(src_nodes_)
                          THEN [inst EXCEPT !.x_src_id = Append(xs, r.value),
                                            !.x_dst_id = xd]
                          ELSE [inst EXCEPT !.x_src_id = xs,
                                            !.x_dst_id = Append(xd, r.value)]
    /\ UNCHANGED <<config, open, src_nodes_, dst_nodes_, neg_nodes_list_,
                   user_nodes, item_nodes, user_indexings_, item_indexings_,
                   ret, filled, nread>>

\* GetTrainBatch reporting the number of partitioned nodes as the batch size
GetTrainBatch_Return_NodeCount ==
    /\ pc = "edge" /\ k = Len(ResolveOrder)
    /\ inst' = [inst EXCEPT !.batch = Len(user_nodes) + Len(item_nodes)]
    /\ ret' = "true"
    /\ pc' = "idle"
    /\ UNCHANGED <<config, open, src_nodes_, dst_nodes_, neg_nodes_list_,
                   user_nodes, item_nodes, user_indexings_, item_indexings_,
                   k, filled, nread>>

\* set_batch(src_nodes_.size()); return true
GetTrainBatch_Return ==
    /\ pc = "edge" /\ k = Len(ResolveOrder)
    /\ inst' = [inst EXCEPT !.batch = Len(src_nodes_)]
    /\ ret' = "true"
    /\ pc' = "idle"
    /\ UNCHANGED <<config, open, src_nodes_, dst_nodes_, neg_nodes_list_,
                   user_nodes, item_nodes, user_indexings_, item_indexings_,
                   k, filled, nread>>

-----------------------------------------------------------------------------
(* GetPredictBatch *)

\* GetPredictBatch reporting end-of-stream without closing line_parser_
GetPredictBatch_EndOfStream_NoClose ==
    /\ pc = "idle" /\ ~is_train_
    /\ inst' = [inst EXCEPT !.batch = 0]
    /\ ret' = "false"
    /\ k' = 0 /\ filled' = {} /\ nread' = 0
    /\ UNCHANGED <<config, open, pc, src_nodes_, dst_nodes_, neg_nodes_list_,
                   user_nodes, item_nodes, user_indexings_, item_indexings_>>

\* NextBatch yields nothing: Close, clear_batch, return false
GetPredictBatch_EndOfStream ==
    /\ pc = "idle" /\ ~is_train_
    /\ open' = FALSE
    /\ inst' = [inst EXCEPT !.batch = 0]
    /\ ret' = "false"
    /\ k' = 0 /\ filled' = {} /\ nread' = 0
    /\ UNCHANGED <<config, pc, src_nodes_, dst_nodes_, neg_nodes_list_,
                   user_nodes, item_nodes, user_indexings_, item_indexings_>>

\* NextBatch, Collect and the partition of the source nodes
GetPredictBatch_Read ==
    /\ pc = "idle" /\ ~is_train_ /\ open
    /\ \E values \in SeqsUpTo(NodePool, 1, MaxBatch) :
         LET parsed == ParseUserAndItemFrom(values, user_ns_id_, item_ns_id_,
                                            << >>, << >>)
         IN /\ src_nodes_' = values
            /\ user_nodes' = parsed[1]
            /\ item_nodes' = parsed[2]
            /\ nread' = Len(values)
    /\ pc' = "fill_user"
    /\ ret' = "none"
    /\ k' = 0 /\ filled' = {}
    /\ UNCHANGED <<config, open, dst_nodes_, neg_nodes_list_, user_indexings_,
                   item_indexings_, inst>>

\* FillIndex: clear the tensor, then one row per source node
FillIndex_Step ==
    /\ pc = "index" /\ k < Len(src_nodes_)
    /\ LET r == Index(src_nodes_[k + 1])
           xs == IF k = 0 THEN << >> ELSE inst.x_src_id
       IN IF ~r.check
          THEN /\ pc' = "aborted"
               /\ inst' = [inst EXCEPT !.x_src_id = xs]
               /\ UNCHANGED k
          ELSE /\ pc' = "index"
               /\ k' = k + 1
               /\ inst' = [inst EXCEPT !.x_src_id = Append(xs, r.value)]
    /\ UNCHANGED <<config, open, src_nodes_, dst_nodes_, neg_nodes_list_,
                   user_nodes, item_nodes, user_indexings_, item_indexings_,
                   ret, filled, nread>>

\* *predict_nodes_ptr = src_nodes_; set_batch(src_nodes_.size()); return true
GetPredictBatch_Return ==
    /\ pc = "index" /\ k = Len(src_nodes_)
    /\ inst' = [inst EXCEPT !.predict_nodes = src_nodes_,
                            !.batch = Len(src_nodes_)]
    /\ ret' = "true"
    /\ pc' = "idle"
    /\ UNCHANGED <<config, open, src_nodes_, dst_nodes_, neg_nodes_list_,
                   user_nodes, item_nodes, user_indexings_, item_indexings_,
                   k, filled, nread>>

-----------------------------------------------------------------------------

Next ==
    \/ GetTrainBatch_EndOfStream
    \/ GetTrainBatch_Read
    \/ GetBatch_FillUser
    \/ GetBatch_FillItem
    \/ FillEdgeAndLabel_Step
    \/ GetTrainBatch_Return
    \/ GetPredictBatch_EndOfStream
    \/ GetPredictBatch_Read
    \/ FillIndex_Step
    \/ GetPredictBatch_Return

Spec == Init /\ [][Next]_vars

-----------------------------------------------------------------------------
(* Vocabulary of the properties *)

\* The routing of ParseUserAndItemFrom: the user test comes first
IsUserType(node) == GetNodeType(node) = user_ns_id_
IsItemType(node) == GetNodeType(node) # user_ns_id_ /\ GetNodeType(node) = item_ns_id_
Registered(node) == IsUserType(node) \/ IsItemType(node)

\* Both FillInstance calls of the current GetBatch call have returned
BothFilled == filled = {"user", "item"}

\* The nodes the current call resolves, in the order it resolves them
Order == IF is_train_ THEN ResolveOrder ELSE src_nodes_

\* The resolver the current call uses
Resolve(node) == IF is_train_ THEN index_func(node) ELSE Index(node)

\* The flat index written for the i-th resolved node
Written(i) ==
    IF i <= Len(src_nodes_) THEN inst.x_src_id[i]
    ELSE inst.x_dst_id[i - Len(src_nodes_)]

\* Get misses in the level-0 table the resolver consults for the node
LookupMiss(node) ==
    IF GetNodeType(node) = user_ns_id_
    THEN Get(user_indexings_[1], node) < 0
    ELSE Get(item_indexings_[1], node) < 0

\* The subsequence of the nodes whose type tag is in tags
RECURSIVE KeepTagged(_, _)
KeepTagged(s, tags) ==
    IF s = << >> THEN << >>
    ELSE IF GetNodeType(Head(s)) \in tags
         THEN <<Head(s)>> \o KeepTagged(Tail(s), tags)
         ELSE KeepTagged(Tail(s), tags)

-----------------------------------------------------------------------------
(* C1: once both FillInstance calls have built the level-0 tables, of sizes  *)
(* U and I, every resolvable user-type node has a flat index in [0, U),      *)
(* every resolvable item-type node one in [U, U+I), two distinct nodes never *)
(* resolve to the same flat index, and the indices written to the instance   *)
(* are those.                                                                *)
C1_UnifiedIndexDisjoint ==
    BothFilled =>
        LET U == Size(user_indexings_[1])
            I == Size(item_indexings_[1])
        IN /\ \A n \in NodePool : Resolve(n).check =>
                /\ IsUserType(n) => (0 <= Resolve(n).value /\ Resolve(n).value < U)
                /\ IsItemType(n) => (U <= Resolve(n).value /\ Resolve(n).value < U + I)
           /\ \A n, m \in NodePool :
                (Resolve(n).check /\ Resolve(m).check /\ n # m)
                    => Resolve(n).value # Resolve(m).value
           /\ \A i \in 1..k : Written(i) = Resolve(Order[i]).value

\* A finished training batch with a user and an item, the item written at >= U
C1_Witness ==
    /\ is_train_ /\ pc = "idle" /\ ret = "true" /\ BothFilled
    /\ Size(user_indexings_[1]) >= 1 /\ Size(item_indexings_[1]) >= 1
    /\ \E i \in 1..k : IsItemType(Order[i]) /\ Written(i) >= Size(user_indexings_[1])

-----------------------------------------------------------------------------
(* C2 as claimed: in a training batch every node of src_nodes_, dst_nodes_   *)
(* and neg_nodes_list_ is indexed, so resolving it succeeds.                 *)
C2_EveryNodeIndexed ==
    (is_train_ /\ BothFilled) =>
        \A n \in Range(ResolveOrder) : index_func(n).check

(* C2 amended: in a training batch every node of src_nodes_, dst_nodes_ and  *)
(* neg_nodes_list_ whose type tag is registered is present exactly once in   *)
(* the level-0 table of its type, resolves successfully, and every           *)
(* occurrence of it is written with that same flat index; a node of an       *)
(* unregistered type is in neither table.                                    *)
C2_RegisteredNodeIndexedOnce ==
    (is_train_ /\ BothFilled) =>
        \A n \in Range(ResolveOrder) :
            LET own == IF IsUserType(n) THEN user_indexings_[1]
                       ELSE item_indexings_[1]
            IN IF Registered(n)
               THEN /\ Cardinality({p \in 1..Len(own) : own[p] = n}) = 1
                    /\ index_func(n).check
                    /\ \A i \in 1..k : Order[i] = n => Written(i) = index_func(n).value
               ELSE /\ n \notin Range(user_indexings_[1])
                    /\ n \notin Range(item_indexings_[1])

\* A finished training batch in which one node was resolved at two positions
C2_Witness ==
    /\ is_train_ /\ pc = "idle" /\ ret = "true" /\ k = Len(ResolveOrder)
    /\ \E i, j \in 1..k : i < j /\ Order[i] = Order[j]

-----------------------------------------------------------------------------
(* C3: a batch that holds a node of an unregistered type (as source,         *)
(* destination, negative or predict node) is never aborted.                  *)
C3_UnregisteredNodeNotFatal ==
    (\E n \in Range(Order) : ~Registered(n)) => pc # "aborted"

-----------------------------------------------------------------------------
(* C4: when Get misses for the node being resolved, the batch is aborted and *)
(* nothing is written for that node; every index that is written comes from  *)
(* a hit and is not negative.                                                *)
C4_MissIsFatal ==
    /\ [](\A i \in 1..k : ~LookupMiss(Order[i]) /\ Written(i) >= 0)
    /\ [][(pc \in {"edge", "index"} /\ k < Len(Order) /\ LookupMiss(Order[k + 1]))
              => /\ pc' = "aborted"
                 /\ k' = k
                 /\ Len(inst'.x_src_id) + Len(inst'.x_dst_id) = k]_vars

\* A batch aborted by a miss after an earlier node had been written
C4_Witness ==
    pc = "aborted" /\ k >= 1 /\ LookupMiss(Order[k + 1])

-----------------------------------------------------------------------------
-----------------------------------------------------------------------------
(* C6: a call that finds the record source exhausted closes it, sets the     *)
(* batch of the instance to 0, returns false, and leaves the node buffers,   *)
(* the negative lists, the index tables and the index tensors as they were,  *)
(* in training and in inference alike.                                       *)
C6_EndOfStream ==
    [][(pc = "idle" /\ pc' = "idle")
          => /\ open' = FALSE
             /\ inst' = [inst EXCEPT !.batch = 0]
             /\ ret' = "false"
             /\ k' = 0 /\ filled' = {}
             /\ UNCHANGED <<src_nodes_, dst_nodes_, neg_nodes_list_, user_nodes,
                            item_nodes, user_indexings_, item_indexings_>>]_vars

\* End-of-stream reported in inference after a batch had been built
C6_Witness ==
    /\ ~is_train_ /\ ~open /\ ret = "false" /\ inst.batch = 0
    /\ inst.predict_nodes # << >> /\ user_indexings_ # << >>

-----------------------------------------------------------------------------
(* C7: after a successful call the batch size of the instance is the number  *)
(* of records the call read: the number of edges in training, of nodes in    *)
(* inference.                                                                *)
C7_BatchSize ==
    (pc = "idle" /\ ret = "true") =>
        /\ nread >= 1
        /\ inst.batch = nread
        /\ Len(src_nodes_) = nread
        /\ is_train_ => Len(dst_nodes_) = nread

\* A finished training batch whose size differs from the number of indexed nodes
C7_Witness ==
    /\ is_train_ /\ pc = "idle" /\ ret = "true"
    /\ Size(user_indexings_[1]) + Size(item_indexings_[1]) # inst.batch

-----------------------------------------------------------------------------
(* C8: a node is resolved only after the FillInstance calls for the user and *)
(* for the item encoder of the same call have both returned, nothing is      *)
(* resolved or written while they run, and the tables do not change while    *)
(* the nodes of the batch are resolved.                                      *)
C8_TablesBuiltBeforeResolve ==
    /\ []((pc \in {"edge", "index"} \/ k > 0) => BothFilled)
    /\ [][(pc \in {"fill_user", "fill_item"}) => (k' = 0 /\ inst' = inst)]_vars
    /\ [][(pc \in {"edge", "index"})
              => UNCHANGED <<user_indexings_, item_indexings_>>]_vars

\* A training batch in the middle of its resolutions
C8_Witness ==
    pc = "edge" /\ k >= 2 /\ k < Len(Order) /\ BothFilled

-----------------------------------------------------------------------------
(* C9: FillInstance with an empty node list leaves a level-0 table of size   *)
(* 0; a batch whose nodes are all of the item type is not aborted, reads the *)
(* user-table size as 0 and writes item indices in [0, I).                   *)
AllItemBatch == Order # << >> /\ \A n \in Range(Order) : IsItemType(n)

C9_EmptyNodeList ==
    /\ ("user" \in filled /\ user_nodes = << >>)
          => (Len(user_indexings_) >= 1 /\ Size(user_indexings_[1]) = 0)
    /\ ("item" \in filled /\ item_nodes = << >>)
          => (Len(item_indexings_) >= 1 /\ Size(item_indexings_[1]) = 0)
    /\ (AllItemBatch /\ BothFilled)
          => /\ pc # "aborted"
             /\ Size(user_indexings_[1]) = 0
             /\ \A i \in 1..k :
                    0 <= Written(i) /\ Written(i) < Size(item_indexings_[1])

\* A finished training batch of item nodes only
C9_Witness ==
    /\ is_train_ /\ pc = "idle" /\ ret = "true" /\ AllItemBatch
    /\ user_nodes = << >> /\ k >= 2

-----------------------------------------------------------------------------
(* C10: once both FillInstance calls of a batch have returned, the level-0   *)
(* tables hold exactly the user and item nodes of that batch, whatever they  *)
(* held before: a node is resolvable iff it is a registered node of the      *)
(* batch, and the item offset is the number of distinct user nodes of the    *)
(* batch; the FillInstance call of one encoder leaves the tables of the      *)
(* other unchanged.                                                          *)
C10_TablesReplaced ==
    /\ [](BothFilled =>
            /\ Len(user_indexings_) = Len(num_neighbors_) + 1
            /\ Len(item_indexings_) = Len(num_neighbors_) + 1
            /\ Range(user_indexings_[1]) = Range(user_nodes)
            /\ Range(item_indexings_[1]) = Range(item_nodes)
            /\ Size(user_indexings_[1]) = Cardinality(Range(user_nodes))
            /\ \A n \in NodePool :
                  Resolve(n).check <=> (n \in Range(Order) /\ Registered(n)))
    /\ [][(pc = "fill_user") => UNCHANGED item_indexings_]_vars
    /\ [][(pc = "fill_item") => UNCHANGED user_indexings_]_vars

\* The user table rebuilt, the item table still holding a node of the last batch
C10_Witness ==
    /\ pc = "fill_item" /\ "user" \in filled
    /\ item_indexings_ # << >>
    /\ \E n \in Range(item_indexings_[1]) : n \notin Range(item_nodes)

====
